---------------------------- MODULE Spec2Model ----------------------------
(***************************************************************************)
(* A model of cloudcat's data acquisition pipeline (src/cloudcat/cli.py):  *)
(* the file selection functions get_files_for_multiread and               *)
(* find_first_non_empty_file, the single-file reader read_data, the       *)
(* bounded multi-file reader read_data_from_multiple_files and its schema *)
(* merge, the WHERE clause (parse_where_clause, apply_where_filter and    *)
(* its call in main), strip_compression_extension and the column          *)
(* projection of the decoders.                                            *)
(*                                                                         *)
(* File names are sequences of one-character strings, so that Python's    *)
(* string ordering, str.endswith and the `...$` regular expressions of    *)
(* the source are computed character by character.  A directory entry is  *)
(* the Python tuple (name, size), written <<name, size>>.  A DataFrame is *)
(* the sequence of its rows; a row is <<file index, row index>>, so every *)
(* row of every file is distinguishable.                                  *)
(*                                                                         *)
(* Environment assumed throughout: the optional format libraries are      *)
(* installed (HAS_PARQUET, HAS_AVRO, HAS_ORC), object keys of one listing *)
(* are pairwise distinct, and offset and limit are not negative.          *)
(***************************************************************************)
EXTENDS Integers, Sequences, FiniteSets, TLC

VARIABLES
    files,             \* the (name, size) listing returned by list_*_directory
    input_format,      \* --input-format, "" when not given
    max_size_mb,       \* --max-size-mb
    pc,                \* control point of the operation being modelled
    selected,          \* outcome of the file selection call
    opened,            \* streams opened so far, in order
    file_list,         \* content of the files handed to a reader
    num_rows,          \* --num-rows (the limit; 0 reads everything)
    offset,            \* --offset
    file_idx,          \* position of the multi-file loop in file_list
    remaining_offset,
    rows_read,
    rows_skipped,
    total_rows,
    dfs,               \* the accumulated row batches
    schemas,           \* the recorded per-file schemas
    all_columns,       \* accumulator of the schema merge
    result,            \* what the reader returned or raised
    where,             \* --where, "" when not given
    cells,             \* the value each row holds in the column "a"
    na_kept,           \* whether astype(str) of the installed pandas keeps nulls
    parsed,            \* what parse_where_clause returned or raised
    shown,             \* the rows main goes on to render, or the error raised
    path,              \* an object path handed to the path helpers
    stripped,          \* what strip_compression_extension returned for it
    columns,           \* --columns after the split at commas, <<>> when not given
    multi_file_mode,   \* --multi-file-mode: first, auto or all
    calls,             \* the selection and reader calls main has made, in order
    first_file         \* the file main inferred the format from in multi-file mode

vars == <<files, input_format, max_size_mb, pc, selected, opened, file_list,
          num_rows, offset, file_idx, remaining_offset, rows_read,
          rows_skipped, total_rows, dfs, schemas, all_columns, result,
          where, cells, na_kept, parsed, shown, path, stripped, columns,
          multi_file_mode, calls, first_file>>

whereVars == <<where, cells, na_kept, parsed, shown>>

pathVars == <<path, stripped>>

mainVars == <<multi_file_mode, calls, first_file>>

readVars == <<file_list, num_rows, offset, file_idx, remaining_offset,
              rows_read, rows_skipped, total_rows, dfs, schemas, result>>

-----------------------------------------------------------------------------
(* Bounds of the model.                                                    *)

MaxListing == 3
MaxFiles == 3
MaxRows == 4
MaxOffset == 5
MaxLimit == 2
MaxSchemas == 3
MaxRowsSingle == 10
MaxOffsetSingle == 8
MaxLimitSingle == 5

-----------------------------------------------------------------------------
(* Characters and strings.                                                 *)

ord ==
    " " :> 32 @@ "!" :> 33 @@ "\"" :> 34 @@ "'" :> 39 @@ "." :> 46 @@ "/" :> 47 @@
    "0" :> 48 @@ "1" :> 49 @@ "2" :> 50 @@ "3" :> 51 @@ "4" :> 52 @@
    "<" :> 60 @@ "=" :> 61 @@ ">" :> 62 @@
    "A" :> 65 @@ "B" :> 66 @@ "C" :> 67 @@ "D" :> 68 @@ "E" :> 69 @@
    "F" :> 70 @@ "G" :> 71 @@ "H" :> 72 @@ "I" :> 73 @@ "J" :> 74 @@ "K" :> 75 @@
    "L" :> 76 @@ "M" :> 77 @@ "N" :> 78 @@ "O" :> 79 @@ "P" :> 80 @@ "Q" :> 81 @@
    "R" :> 82 @@ "S" :> 83 @@ "T" :> 84 @@ "U" :> 85 @@ "V" :> 86 @@ "W" :> 87 @@
    "X" :> 88 @@ "Y" :> 89 @@ "Z" :> 90 @@ "_" :> 95 @@ "a" :> 97 @@ "b" :> 98 @@
    "c" :> 99 @@ "d" :> 100 @@ "e" :> 101 @@ "f" :> 102 @@ "g" :> 103 @@ "h" :> 104 @@
    "i" :> 105 @@ "j" :> 106 @@ "k" :> 107 @@ "l" :> 108 @@ "m" :> 109 @@ "n" :> 110 @@
    "o" :> 111 @@ "p" :> 112 @@ "q" :> 113 @@ "r" :> 114 @@ "s" :> 115 @@ "t" :> 116 @@
    "u" :> 117 @@ "v" :> 118 @@ "w" :> 119 @@ "x" :> 120 @@ "y" :> 121 @@ "z" :> 122

chr == [n \in {ord[c] : c \in DOMAIN ord} |-> CHOOSE c \in DOMAIN ord : ord[c] = n]

\* str.lower on one character: the upper-case letters move down the table.
LowerChar(c) ==
    IF ord[c] >= ord["A"] /\ ord[c] <= ord["Z"]
    THEN chr[ord[c] + (ord["a"] - ord["A"])]
    ELSE c

lower(s) == [k \in 1..Len(s) |-> LowerChar(s[k])]

endswith(s, suffix) ==
    /\ Len(suffix) <= Len(s)
    /\ SubSeq(s, Len(s) - Len(suffix) + 1, Len(s)) = suffix

\* Python's s < t on strings: the first differing code point decides,
\* and a proper prefix is smaller.
RECURSIVE StrLess(_, _)
StrLess(s, t) ==
    IF t = <<>> THEN FALSE
    ELSE IF s = <<>> THEN TRUE
    ELSE IF ord[Head(s)] # ord[Head(t)] THEN ord[Head(s)] < ord[Head(t)]
    ELSE StrLess(Tail(s), Tail(t))

\* list.sort(key=lambda x: x[0]) is stable: an entry goes behind every
\* earlier entry whose name is not greater.
InsertByName(sorted, x) ==
    LET k == Cardinality({j \in 1..Len(sorted) : ~StrLess(x[1], sorted[j][1])})
    IN  SubSeq(sorted, 1, k) \o <<x>> \o SubSeq(sorted, k + 1, Len(sorted))

RECURSIVE SortByName(_)
SortByName(s) ==
    IF s = <<>> THEN <<>>
    ELSE InsertByName(SortByName(SubSeq(s, 1, Len(s) - 1)), s[Len(s)])


Min(a, b) == IF a <= b THEN a ELSE b
Max(a, b) == IF a >= b THEN a ELSE b

-----------------------------------------------------------------------------
(* File selection: get_files_for_multiread and find_first_non_empty_file.  *)

skip_patterns ==
    { <<"_", "S", "U", "C", "C", "E", "S", "S">>,
      <<".", "c", "r", "c">>,
      <<".", "c", "o", "m", "m", "i", "t", "t", "e", "d">>,
      <<".", "p", "e", "n", "d", "i", "n", "g">>,
      <<"_", "m", "e", "t", "a", "d", "a", "t", "a">> }

format_ext_map ==
    [ csv     |-> { <<".", "c", "s", "v">> },
      json    |-> { <<".", "j", "s", "o", "n">>,
                    <<".", "j", "s", "o", "n", "l">>,
                    <<".", "n", "d", "j", "s", "o", "n">> },
      parquet |-> { <<".", "p", "a", "r", "q", "u", "e", "t">> },
      avro    |-> { <<".", "a", "v", "r", "o">> },
      orc     |-> { <<".", "o", "r", "c">> },
      text    |-> { <<".", "t", "x", "t">>, <<".", "l", "o", "g">> } ]

\* any(re.search(pattern, file_name) for pattern in skip_patterns):
\* every pattern is a literal anchored at the end, matched case-sensitively.
IsMetadata(name) == \E p \in skip_patterns : endswith(name, p)

\* re.search(format_regex, name, re.IGNORECASE)
MatchesFormat(name, fmt) == \E e \in format_ext_map[fmt] : endswith(lower(name), e)

BytesPerMB == 1024 * 1024

\* Mutant: the size test lets zero-size entries through.
non_empty_files_keep_zero(listing) == SelectSeq(listing, LAMBDA f : f[2] >= 0)

non_empty_files(listing) == SelectSeq(listing, LAMBDA f : f[2] > 0)

non_metadata_files(listing) ==
    SelectSeq(non_empty_files(listing), LAMBDA f : ~IsMetadata(f[1]))

\* Mutant: no fallback when every non-empty file is metadata.
metadata_filtered_no_fallback(listing) == non_metadata_files(listing)

\* The candidates after the metadata step, with its fallback.
metadata_filtered(listing) ==
    LET data == non_metadata_files(listing)
    IN  IF data = <<>> THEN non_empty_files(listing) ELSE data

matching_files(candidates, fmt) ==
    SelectSeq(candidates, LAMBDA f : MatchesFormat(f[1], fmt))

\* Mutant: the candidates are left in listing order.
filtered_files_unsorted(listing, fmt) ==
    LET pre == metadata_filtered(listing)
        matching == IF fmt # "" /\ fmt \in DOMAIN format_ext_map
                    THEN matching_files(pre, fmt) ELSE <<>>
    IN  IF matching # <<>> THEN matching ELSE pre

\* The candidates after the format step, with its fallback, sorted by name.
filtered_files(listing, fmt) ==
    LET pre == metadata_filtered(listing)
        matching == IF fmt # "" /\ fmt \in DOMAIN format_ext_map
                    THEN matching_files(pre, fmt) ELSE <<>>
    IN  SortByName(IF matching # <<>> THEN matching ELSE pre)

\* Mutant: the threshold is tested before a file is appended.
RECURSIVE SelectLoopTestFirst(_, _, _, _)
SelectLoopTestFirst(candidates, sel, total_size, max_size_bytes) ==
    IF candidates = <<>> THEN sel
    ELSE IF total_size >= max_size_bytes THEN sel
    ELSE SelectLoopTestFirst(Tail(candidates), Append(sel, Head(candidates)),
                             total_size + Head(candidates)[2], max_size_bytes)

\* The selection loop: append, add the size, then test the threshold.
RECURSIVE SelectLoop(_, _, _, _)
SelectLoop(candidates, sel, total_size, max_size_bytes) ==
    IF candidates = <<>> THEN sel
    ELSE LET sel2 == Append(sel, Head(candidates))
             total2 == total_size + Head(candidates)[2]
         IN  IF total2 >= max_size_bytes THEN sel2
             ELSE SelectLoop(Tail(candidates), sel2, total2, max_size_bytes)

\* Mutant: the threshold is a hard ceiling, tested before a file is added
\* (the first file is always taken).
RECURSIVE SelectLoopHardCap(_, _, _, _)
SelectLoopHardCap(candidates, sel, total_size, max_size_bytes) ==
    IF candidates = <<>> THEN sel
    ELSE IF sel # <<>> /\ total_size + Head(candidates)[2] > max_size_bytes THEN sel
    ELSE SelectLoopHardCap(Tail(candidates), Append(sel, Head(candidates)),
                           total_size + Head(candidates)[2], max_size_bytes)

selected_files_hard_cap(listing, fmt, mb) ==
    SelectLoopHardCap(filtered_files(listing, fmt), <<>>, 0, mb * BytesPerMB)

selected_files(listing, fmt, mb) ==
    SelectLoop(filtered_files(listing, fmt), <<>>, 0, mb * BytesPerMB)

get_files_for_multiread(listing, fmt, mb) ==
    IF listing = <<>>
    THEN [status |-> "No files found", value |-> <<>>]
    ELSE IF non_empty_files(listing) = <<>>
    THEN [status |-> "No non-empty files found", value |-> <<>>]
    ELSE LET sel == selected_files(listing, fmt, mb)
         IN  IF sel = <<>>
             THEN [status |-> "No suitable files found", value |-> <<>>]
             ELSE [status |-> "ok", value |-> sel]

\* Mutant: the skip patterns are not consulted.
first_unskipped_ignoring_patterns(sorted) == sorted[1][1]

\* The first sorted non-empty file that matches no skip pattern, or the
\* first sorted non-empty file when there is none.
first_unskipped(sorted) ==
    LET data == SelectSeq(sorted, LAMBDA f : ~IsMetadata(f[1]))
    IN  IF data # <<>> THEN data[1][1] ELSE sorted[1][1]

\* Mutant: the non-empty files are left in listing order.
find_first_non_empty_file_unsorted(listing, fmt) ==
    IF listing = <<>>
    THEN [status |-> "No files found", value |-> <<>>]
    ELSE IF non_empty_files(listing) = <<>>
    THEN [status |-> "No non-empty files found", value |-> <<>>]
    ELSE LET sorted == non_empty_files(listing)
             matching == IF fmt # "" /\ fmt \in DOMAIN format_ext_map
                         THEN matching_files(sorted, fmt) ELSE <<>>
         IN  IF matching # <<>>
             THEN [status |-> "ok", value |-> matching[1][1]]
             ELSE [status |-> "ok", value |-> first_unskipped(sorted)]

find_first_non_empty_file(listing, fmt) ==
    IF listing = <<>>
    THEN [status |-> "No files found", value |-> <<>>]
    ELSE IF non_empty_files(listing) = <<>>
    THEN [status |-> "No non-empty files found", value |-> <<>>]
    ELSE LET sorted == SortByName(non_empty_files(listing))
             matching == IF fmt # "" /\ fmt \in DOMAIN format_ext_map
                         THEN matching_files(sorted, fmt) ELSE <<>>
         IN  IF matching # <<>>
             THEN [status |-> "ok", value |-> matching[1][1]]
             ELSE [status |-> "ok", value |-> first_unskipped(sorted)]

-----------------------------------------------------------------------------
(* Inputs of the selection model.                                          *)

SuccessMarker == <<"_", "S", "U", "C", "C", "E", "S", "S">>
ACsv == <<"a", ".", "c", "s", "v">>
BCsv == <<"b", ".", "c", "s", "v">>
ACrc == <<"a", ".", "c", "r", "c">>

FileNames == {SuccessMarker, ACrc, ACsv, BCsv}

FileSizes == {0, 100 * BytesPerMB, 200 * BytesPerMB}

InputFormats == {"", "csv", "json"}

MaxSizeMbValues == {-1, 0, 150, 300}

\* Listings in any order; the keys of one listing are pairwise distinct.
Listings ==
    UNION { { l \in [1..n -> FileNames \X FileSizes] :
                \A i, j \in 1..n : i # j => l[i][1] # l[j][1] }
            : n \in 0..MaxListing }

NoSelection == [call |-> "none", status |-> "none", value |-> <<>>]
NoResult == [status |-> "none"]

\* No --where is given and nothing has been filtered.
WhereIdle ==
    /\ where = <<>>
    /\ cells = <<>>
    /\ na_kept = FALSE
    /\ parsed = NoResult
    /\ shown = NoResult

\* No path helper has been called.
PathIdle ==
    /\ path = <<>>
    /\ stripped = <<>>

\* main has not chosen an acquisition strategy; --multi-file-mode has its
\* default.
MainIdle ==
    /\ multi_file_mode = "auto"
    /\ calls = <<>>
    /\ first_file = <<>>

ReaderIdle ==
    /\ file_list = <<>>
    /\ num_rows = 0
    /\ offset = 0
    /\ file_idx = 0
    /\ remaining_offset = 0
    /\ rows_read = 0
    /\ rows_skipped = 0
    /\ total_rows = 0
    /\ dfs = <<>>
    /\ schemas = <<>>
    /\ all_columns = <<>>
    /\ result = NoResult

InitSelect ==
    /\ files \in Listings
    /\ input_format \in InputFormats
    /\ max_size_mb \in MaxSizeMbValues
    /\ pc = "start"
    /\ selected = NoSelection
    /\ opened = <<>>
    /\ ReaderIdle
    /\ WhereIdle
    /\ PathIdle
    /\ columns = <<>>
    /\ MainIdle

\* main calls get_files_for_multiread for a directory read in multi-file mode.
CallGetFilesForMultiread ==
    /\ pc = "start"
    /\ selected' = [call |-> "multiread"] @@
                    get_files_for_multiread(files, input_format, max_size_mb)
    /\ pc' = "selected"
    /\ UNCHANGED <<files, input_format, max_size_mb, opened, all_columns>>
    /\ UNCHANGED readVars
    /\ UNCHANGED whereVars
    /\ UNCHANGED pathVars
    /\ UNCHANGED columns
    /\ UNCHANGED mainVars

\* main calls find_first_non_empty_file for a directory read in first-file mode.
CallFindFirstNonEmptyFile ==
    /\ pc = "start"
    /\ selected' = [call |-> "first"] @@
                    find_first_non_empty_file(files, input_format)
    /\ pc' = "selected"
    /\ UNCHANGED <<files, input_format, max_size_mb, opened, all_columns>>
    /\ UNCHANGED readVars
    /\ UNCHANGED whereVars
    /\ UNCHANGED pathVars
    /\ UNCHANGED columns
    /\ UNCHANGED mainVars

\* The names main goes on to read after a successful selection.
NamesToRead ==
    IF selected.status # "ok" THEN <<>>
    ELSE IF selected.call = "first" THEN <<selected.value>>
    ELSE [k \in 1..Len(selected.value) |-> selected.value[k][1]]

\* The reader that follows opens the stream of the next selected file; a
\* failed selection raises out of main and nothing is read.
OpenStream ==
    /\ pc \in {"selected", "reading"}
    /\ Len(opened) < Len(NamesToRead)
    /\ opened' = Append(opened, NamesToRead[Len(opened) + 1])
    /\ pc' = "reading"
    /\ UNCHANGED <<files, input_format, max_size_mb, selected, all_columns>>
    /\ UNCHANGED readVars
    /\ UNCHANGED whereVars
    /\ UNCHANGED pathVars
    /\ UNCHANGED columns
    /\ UNCHANGED mainVars

NextSelect ==
    \/ CallGetFilesForMultiread
    \/ CallFindFirstNonEmptyFile
    \/ OpenStream

SpecSelect == InitSelect /\ [][NextSelect]_vars

-----------------------------------------------------------------------------
(* Schemas.  A schema (a pandas Series of dtypes, or the dict all_columns) *)
(* is the sequence of its (column, dtype) items in insertion order.       *)

dict_has(d, col) == \E k \in 1..Len(d) : d[k][1] = col

dict_get(d, col) == d[CHOOSE k \in 1..Len(d) : d[k][1] = col][2]

\* d[col] = dtype: an existing key keeps its position, a new key goes last.
dict_set(d, col, dtype) ==
    IF dict_has(d, col)
    THEN [k \in 1..Len(d) |-> IF d[k][1] = col THEN <<col, dtype>> ELSE d[k]]
    ELSE Append(d, <<col, dtype>>)

\* Mutant: on a type disagreement the type seen first is kept.
merge_item_first_wins(all, col, dtype) ==
    IF dict_has(all, col) THEN all ELSE dict_set(all, col, dtype)

\* The body of the inner loop of the schema merge, for one (col, dtype).
merge_item(all, col, dtype) ==
    IF dict_has(all, col)
    THEN IF dict_get(all, col) # dtype THEN dict_set(all, col, "object") ELSE all
    ELSE dict_set(all, col, dtype)

\* for col, dtype in schema.items(): ...
RECURSIVE merge_schema(_, _)
merge_schema(all, schema) ==
    IF schema = <<>> THEN all
    ELSE merge_schema(merge_item(all, Head(schema)[1], Head(schema)[2]), Tail(schema))

\* for schema in schemas: ...
RECURSIVE merge_schemas(_, _)
merge_schemas(all, recorded) ==
    IF recorded = <<>> THEN all
    ELSE merge_schemas(merge_schema(all, Head(recorded)), Tail(recorded))

-----------------------------------------------------------------------------
(* The format decoders and the readers.                                    *)
(* A file is [rows, fails, schema]: the number of rows it holds, whether   *)
(* fetching, decompressing or decoding it raises, and its full schema.     *)

\* read_*_data(stream, num_rows, ...): the first num_rows rows of the file
\* when num_rows > 0, every row otherwise.  Row k of file idx is <<idx, k>>.
decode(idx, f, budget) ==
    [k \in 1..(IF budget > 0 THEN Min(f.rows, budget) ELSE f.rows) |-> <<idx, k>>]

columns_of(schema) == [k \in 1..Len(schema) |-> schema[k][1]]

\* Mutant: the offset is left out of the row budget.
rows_to_read_without_offset(to_skip, to_read) ==
    IF to_read > 0 THEN to_read ELSE 0

\* offset + limit when a limit is given, 0 (everything) otherwise.
rows_to_read(to_skip, to_read) ==
    IF to_read > 0 THEN to_skip + to_read ELSE 0

\* Mutant: the slice starts one row early.
iloc_from_one_early(df, n) == SubSeq(df, n, Len(df))

\* Mutant: the slice keeps every row.
iloc_from_keep_all(df, n) == df

\* df.iloc[n:]
iloc_from(df, n) == SubSeq(df, n + 1, Len(df))

\* df.iloc[:n]
iloc_to(df, n) == SubSeq(df, 1, Min(n, Len(df)))

\* Mutant: the rows before the offset are not dropped.
read_data_keeping_offset(f, limit, skip) ==
    IF f.fails THEN [status |-> "raised"]
    ELSE [status |-> "ok", rows |-> decode(1, f, rows_to_read(skip, limit)),
          columns |-> columns_of(f.schema), schema |-> f.schema]

\* read_data: one decode with the budget, then the offset is cut off.
read_data(f, limit, skip) ==
    IF f.fails THEN [status |-> "raised"]
    ELSE LET df == decode(1, f, rows_to_read(skip, limit))
             out == IF skip > 0 /\ df # <<>>
                    THEN IF skip >= Len(df) THEN <<>> ELSE iloc_from(df, skip)
                    ELSE df
         IN  [status |-> "ok", rows |-> out,
              columns |-> columns_of(f.schema), schema |-> f.schema]

\* pd.concat(dfs)
RECURSIVE concat(_)
concat(batches) == IF batches = <<>> THEN <<>> ELSE Head(batches) \o concat(Tail(batches))

\* Mutant: the concatenated result is not cut to the limit.
truncate_skipped(df, limit) == df

\* The final truncation of the multi-file result.
truncate(df, limit) ==
    IF limit > 0 /\ Len(df) > limit THEN iloc_to(df, limit) ELSE df

\* Mutant: an exception in one file ends the loop.
after_exception_stop(more_files) == "post"

\* Where the loop goes after the except clause: on to the next file.
after_exception(more_files) == IF more_files THEN "loop" ELSE "post"

\* Mutant: the loop never stops for the limit.
enough_rows_never(limit, read) == FALSE

\* `if num_rows > 0 and rows_read >= num_rows: break`
enough_rows(limit, read) == limit > 0 /\ read >= limit

NoDataRead == "No data could be read from any of the files"

\* Mutant: an empty accumulation always raises, rows skipped or not.
multi_result_always_raising ==
    IF dfs = <<>>
    THEN [status |-> NoDataRead]
    ELSE [status |-> "ok",
          rows |-> truncate(concat(dfs), num_rows),
          columns |-> columns_of(merge_schemas(<<>>, schemas)),
          schema |-> merge_schemas(<<>>, schemas),
          total |-> total_rows]

\* Mutant: the total reported counts the rows kept after the offset.
multi_result_total_after_offset ==
    IF dfs = <<>>
    THEN IF rows_skipped > 0
         THEN [status |-> "ok", rows |-> <<>>, columns |-> <<>>,
               schema |-> <<>>, total |-> rows_read]
         ELSE [status |-> NoDataRead]
    ELSE [status |-> "ok",
          rows |-> truncate(concat(dfs), num_rows),
          columns |-> columns_of(merge_schemas(<<>>, schemas)),
          schema |-> merge_schemas(<<>>, schemas),
          total |-> rows_read]

\* The code after the loop of read_data_from_multiple_files.
multi_result ==
    IF dfs = <<>>
    THEN IF rows_skipped > 0
         THEN [status |-> "ok", rows |-> <<>>, columns |-> <<>>,
               schema |-> <<>>, total |-> total_rows]
         ELSE [status |-> NoDataRead]
    ELSE [status |-> "ok",
          rows |-> truncate(concat(dfs), num_rows),
          columns |-> columns_of(merge_schemas(<<>>, schemas)),
          schema |-> merge_schemas(<<>>, schemas),
          total |-> total_rows]

-----------------------------------------------------------------------------
(* Inputs of the reader models.                                            *)

SchemaA == << <<"id", "int64">>, <<"v", "int64">> >>
SchemaB == << <<"v", "float64">>, <<"id", "int64">>, <<"w", "object">> >>

\* The files of a list alternate between the two schemas.
SchemaAt(idx) == IF idx % 2 = 1 THEN SchemaA ELSE SchemaB

FailingFile == [rows |-> 0, fails |-> TRUE, schema |-> <<>>]

FileContents(max_rows) ==
    {FailingFile} \cup
    [rows : 0..max_rows, fails : {FALSE}, schema : {SchemaA, SchemaB}]

FileLists(max_files, max_rows) ==
    UNION { { l \in [1..n -> FileContents(max_rows)] :
                \A i \in 1..n : ~l[i].fails => l[i].schema = SchemaAt(i) }
            : n \in 1..max_files }

SelectionIdle ==
    /\ files = <<>>
    /\ input_format = ""
    /\ max_size_mb = 0
    /\ selected = NoSelection

-----------------------------------------------------------------------------
(* read_data_from_multiple_files, one loop iteration per step.             *)

InitMulti ==
    /\ SelectionIdle
    /\ file_list \in FileLists(MaxFiles, MaxRows)
    /\ num_rows \in 0..MaxLimit
    /\ offset \in 0..MaxOffset
    /\ pc = "loop"
    /\ opened = <<>>
    /\ file_idx = 0
    /\ remaining_offset = offset
    /\ rows_read = 0
    /\ rows_skipped = 0
    /\ total_rows = 0
    /\ dfs = <<>>
    /\ schemas = <<>>
    /\ all_columns = <<>>
    /\ result = NoResult
    /\ WhereIdle
    /\ PathIdle
    /\ columns = <<>>
    /\ MainIdle

\* One iteration of `for file_info in file_list`, the try block and the
\* except clause included.
ProcessFile ==
    /\ pc = "loop"
    /\ file_idx < Len(file_list)
    /\ LET idx == file_idx + 1
           f == file_list[idx]
           more == idx < Len(file_list)
           budget == rows_to_read(remaining_offset,
                                  IF num_rows > 0 THEN num_rows ELSE 0)
           df == decode(idx, f, budget)
           kept == IF remaining_offset > 0 THEN iloc_from(df, remaining_offset) ELSE df
       IN  /\ file_idx' = idx
           /\ opened' = Append(opened, [file |-> idx, budget |-> budget])
           /\ IF f.fails
              THEN /\ pc' = after_exception(more)
                   /\ UNCHANGED <<remaining_offset, rows_read, rows_skipped,
                                  total_rows, dfs, schemas>>
              ELSE IF df = <<>>
              THEN /\ pc' = IF more THEN "loop" ELSE "post"
                   /\ UNCHANGED <<remaining_offset, rows_read, rows_skipped,
                                  total_rows, dfs, schemas>>
              ELSE IF remaining_offset > 0 /\ remaining_offset >= Len(df)
              THEN /\ total_rows' = total_rows + Len(df)
                   /\ remaining_offset' = remaining_offset - Len(df)
                   /\ rows_skipped' = rows_skipped + Len(df)
                   /\ schemas' = Append(schemas, f.schema)
                   /\ pc' = IF more THEN "loop" ELSE "post"
                   /\ UNCHANGED <<rows_read, dfs>>
              ELSE /\ total_rows' = total_rows + Len(df)
                   /\ rows_skipped' = rows_skipped + remaining_offset
                   /\ remaining_offset' = 0
                   /\ dfs' = Append(dfs, kept)
                   /\ schemas' = Append(schemas, f.schema)
                   /\ rows_read' = rows_read + Len(kept)
                   /\ pc' = IF enough_rows(num_rows, rows_read + Len(kept)) \/ ~more
                            THEN "post" ELSE "loop"
    /\ UNCHANGED <<files, input_format, max_size_mb, selected, file_list,
                   num_rows, offset, all_columns, result>>
    /\ UNCHANGED whereVars
    /\ UNCHANGED pathVars
    /\ UNCHANGED columns
    /\ UNCHANGED mainVars

\* The code after the loop: the empty cases, the concatenation, the schema
\* merge and the truncation.
FinishMulti ==
    /\ pc = "post"
    /\ result' = multi_result
    /\ pc' = "done"
    /\ UNCHANGED <<files, input_format, max_size_mb, selected, opened, file_list,
                   num_rows, offset, file_idx, remaining_offset, rows_read,
                   rows_skipped, total_rows, dfs, schemas, all_columns>>
    /\ UNCHANGED whereVars
    /\ UNCHANGED pathVars
    /\ UNCHANGED columns
    /\ UNCHANGED mainVars

NextMulti == ProcessFile \/ FinishMulti

SpecMulti == InitMulti /\ [][NextMulti]_vars

-----------------------------------------------------------------------------
(* read_data on one file.                                                  *)

InitSingle ==
    /\ SelectionIdle
    /\ file_list \in FileLists(1, MaxRowsSingle)
    /\ num_rows \in 0..MaxLimitSingle
    /\ offset \in 0..MaxOffsetSingle
    /\ pc = "start"
    /\ opened = <<>>
    /\ file_idx = 0
    /\ remaining_offset = 0
    /\ rows_read = 0
    /\ rows_skipped = 0
    /\ total_rows = 0
    /\ dfs = <<>>
    /\ schemas = <<>>
    /\ all_columns = <<>>
    /\ result = NoResult
    /\ WhereIdle
    /\ PathIdle
    /\ columns = <<>>
    /\ MainIdle

\* main calls read_data on the one object to read.
CallReadData ==
    /\ pc = "start"
    /\ opened' = <<[file |-> 1, budget |-> rows_to_read(offset, num_rows)]>>
    /\ result' = read_data(file_list[1], num_rows, offset)
    /\ pc' = "done"
    /\ UNCHANGED <<files, input_format, max_size_mb, selected, file_list,
                   num_rows, offset, file_idx, remaining_offset, rows_read,
                   rows_skipped, total_rows, dfs, schemas, all_columns>>
    /\ UNCHANGED whereVars
    /\ UNCHANGED pathVars
    /\ UNCHANGED columns
    /\ UNCHANGED mainVars

NextSingle == CallReadData

SpecSingle == InitSingle /\ [][NextSingle]_vars

-----------------------------------------------------------------------------
(* The schema merge of read_data_from_multiple_files, one recorded schema  *)
(* per step.                                                               *)

MergeColumns == <<"id", "v">>
MergeTypes == {"int64", "float64", "object"}

\* The schemas of files that decoded at least one row: one or both of the
\* columns, each with any of the types.
MergeInputs ==
    { <<<<MergeColumns[1], t>>>> : t \in MergeTypes } \cup
    { <<<<MergeColumns[2], t>>>> : t \in MergeTypes } \cup
    { << <<MergeColumns[1], t>>, <<MergeColumns[2], u>> >> : t, u \in MergeTypes }

InitMerge ==
    /\ SelectionIdle
    /\ schemas \in UNION {[1..n -> MergeInputs] : n \in 1..MaxSchemas}
    /\ all_columns = <<>>
    /\ file_idx = 0
    /\ pc = "merge"
    /\ opened = <<>>
    /\ file_list = <<>>
    /\ num_rows = 0
    /\ offset = 0
    /\ remaining_offset = 0
    /\ rows_read = 0
    /\ rows_skipped = 0
    /\ total_rows = 0
    /\ dfs = <<>>
    /\ result = NoResult
    /\ WhereIdle
    /\ PathIdle
    /\ columns = <<>>
    /\ MainIdle

\* One iteration of `for schema in schemas`.
MergeNextSchema ==
    /\ pc = "merge"
    /\ file_idx < Len(schemas)
    /\ all_columns' = merge_schema(all_columns, schemas[file_idx + 1])
    /\ file_idx' = file_idx + 1
    /\ pc' = IF file_idx + 1 = Len(schemas) THEN "merged" ELSE "merge"
    /\ UNCHANGED <<files, input_format, max_size_mb, selected, opened, file_list,
                   num_rows, offset, remaining_offset, rows_read, rows_skipped,
                   total_rows, dfs, schemas, result>>
    /\ UNCHANGED whereVars
    /\ UNCHANGED pathVars
    /\ UNCHANGED columns
    /\ UNCHANGED mainVars

NextMerge == MergeNextSchema

SpecMerge == InitMerge /\ [][NextMerge]_vars

-----------------------------------------------------------------------------
(* Properties of file selection.                                           *)

Range(s) == {s[k] : k \in 1..Len(s)}

RECURSIVE TotalSize(_)
TotalSize(s) == IF s = <<>> THEN 0 ELSE Head(s)[2] + TotalSize(Tail(s))

IsSortedByName(s) ==
    \A i, j \in 1..Len(s) : i < j => ~StrLess(s[j][1], s[i][1])

Permutations1(n) == {p \in [1..n -> 1..n] : \A i, j \in 1..n : i # j => p[i] # p[j]}

Reorderings(s) == {[k \in 1..Len(s) |-> s[p[k]]] : p \in Permutations1(Len(s))}

\* The smallest name of a non-empty set of names, in Python's string order.
SmallestName(names) == CHOOSE n \in names : \A m \in names : ~StrLess(m, n)

NonEmptyEntries == {f \in Range(files) : f[2] > 0}

AfterMultiread == pc = "selected" /\ selected.call = "multiread"

AfterFirst == pc = "selected" /\ selected.call = "first"

MultireadOk == AfterMultiread /\ selected.status = "ok"

\* The index at which size-bounded selection stops on candidates c with
\* stopping threshold t: the first running total >= t, else the last index.
ThresholdIndex(c, t) ==
    LET reached == {k \in 1..Len(c) : TotalSize(SubSeq(c, 1, k)) >= t}
    IN  IF reached = {} THEN Len(c)
        ELSE CHOOSE k \in reached : \A m \in reached : k <= m

StopsAtThreshold ==
    LET c == filtered_files(files, input_format)
        sel == selected.value
    IN  /\ sel # <<>>
        /\ sel = SubSeq(c, 1, ThresholdIndex(c, max_size_mb * BytesPerMB))

UnderCapBeforeLast ==
    LET sel == selected.value
        t == max_size_mb * BytesPerMB
    IN  /\ TotalSize(SubSeq(sel, 1, Len(sel) - 1)) < t
        /\ TotalSize(sel) - t <= sel[Len(sel)][2]

\* The scenario of the claim, with sizes and threshold in megabytes.
ScenarioListing ==
    << <<ACsv, 100 * BytesPerMB>>, <<SuccessMarker, 0>>, <<BCsv, 200 * BytesPerMB>> >>

ScenarioSelection == << <<ACsv, 100 * BytesPerMB>>, <<BCsv, 200 * BytesPerMB>> >>

ScenarioHolds ==
    (AfterMultiread /\ files = ScenarioListing /\ max_size_mb = 150)
        => (selected.status = "ok" /\ selected.value = ScenarioSelection)

C5_SortedAndOrderIndependent ==
    AfterMultiread =>
        /\ IsSortedByName(selected.value)
        /\ \A l \in Reorderings(files) :
             LET other == get_files_for_multiread(l, input_format, max_size_mb)
             IN  other.status = selected.status /\ other.value = selected.value

C5_Witness ==
    /\ MultireadOk
    /\ Len(selected.value) >= 2
    /\ ~IsSortedByName(files)
    /\ \E i, j \in 1..Len(files) :
         /\ i < j
         /\ files[i] \in Range(selected.value)
         /\ files[j] \in Range(selected.value)
         /\ StrLess(files[j][1], files[i][1])

OnlyMetadataLeft == NonEmptyEntries # {} /\ \A f \in NonEmptyEntries : IsMetadata(f[1])

NoFormatMatch ==
    /\ input_format # ""
    /\ \A f \in Range(metadata_filtered(files)) : ~MatchesFormat(f[1], input_format)

\* C6: when every non-empty file is metadata the candidates stay the
\* non-empty files; when no candidate matches the format the candidates
\* stay those before the format filter; so a listing with a file of size
\* > 0 always yields a non-empty selection and no error.
C6_FallbackLaw ==
    AfterMultiread =>
        /\ OnlyMetadataLeft => Range(metadata_filtered(files)) = NonEmptyEntries
        /\ NoFormatMatch =>
             Range(filtered_files(files, input_format)) = Range(metadata_filtered(files))
        /\ NonEmptyEntries # {} =>
             /\ selected.status = "ok"
             /\ selected.value # <<>>
             /\ Range(selected.value) \subseteq NonEmptyEntries

C6_Witness ==
    /\ MultireadOk
    /\ OnlyMetadataLeft
    /\ NoFormatMatch
    /\ Cardinality(NonEmptyEntries) >= 2
    /\ selected.value # <<>>

\* C7: an empty listing fails with "No files found" and a listing of
\* zero-size entries only fails with "No non-empty files found", in both
\* selection functions, whatever the names and the format filter; after
\* either failure no stream has been opened.
C7_SelectionErrors ==
    /\ pc = "selected" =>
        /\ files = <<>> <=> selected.status = "No files found"
        /\ (files # <<>> /\ NonEmptyEntries = {})
             <=> selected.status = "No non-empty files found"
    /\ selected.status \in {"No files found", "No non-empty files found"}
         => (opened = <<>> /\ pc # "reading" /\ ~ENABLED OpenStream)

C7_Witness ==
    /\ AfterFirst
    /\ selected.status = "No non-empty files found"
    /\ input_format = "csv"
    /\ \E f \in Range(files) : MatchesFormat(f[1], "csv")
    /\ \E f \in Range(files) : IsMetadata(f[1])

NonEmptyNames == {f[1] : f \in NonEmptyEntries}

FormatMatches ==
    IF input_format = "" THEN {}
    ELSE {n \in NonEmptyNames : MatchesFormat(n, input_format)}

DataNames == {n \in NonEmptyNames : ~IsMetadata(n)}

\* C8: find_first_non_empty_file returns the name of a file of size > 0:
\* the smallest name matching the format filter if a non-empty file matches
\* it, otherwise the smallest non-empty name matching no skip pattern, and
\* the smallest non-empty name only when every non-empty file is metadata.
C8_FirstFile ==
    (AfterFirst /\ selected.status = "ok") =>
        /\ selected.value \in NonEmptyNames
        /\ selected.value =
             IF FormatMatches # {} THEN SmallestName(FormatMatches)
             ELSE IF DataNames # {} THEN SmallestName(DataNames)
             ELSE SmallestName(NonEmptyNames)

C8_Witness ==
    /\ AfterFirst
    /\ selected.status = "ok"
    /\ input_format = "json"
    /\ FormatMatches = {}
    /\ SuccessMarker \in NonEmptyNames
    /\ selected.value = ACsv
    /\ files[1][1] = BCsv

-----------------------------------------------------------------------------
(* Properties of the readers.                                              *)

\* The rows a file holds; a file that cannot be decoded holds none.
RowsOf(idx) == IF file_list[idx].fails THEN 0 ELSE file_list[idx].rows

RECURSIVE SumRows(_)
SumRows(n) == IF n = 0 THEN 0 ELSE SumRows(n - 1) + RowsOf(n)

TotalDecodable == SumRows(Len(file_list))

\* Every row of every decodable file, in file-list order and in-file order.
RECURSIVE RowsUpTo(_)
RowsUpTo(n) ==
    IF n = 0 THEN <<>>
    ELSE RowsUpTo(n - 1) \o [k \in 1..RowsOf(n) |-> <<n, k>>]

AllRows == RowsUpTo(Len(file_list))

\* all[offset : offset + limit], or all[offset :] when limit = 0.
Window(all, skip, limit) ==
    SubSeq(all, skip + 1, IF limit > 0 THEN Min(Len(all), skip + limit) ELSE Len(all))

MultiDone == pc = "done" /\ Len(opened) >= 1 /\ file_idx >= 1

AllDecodable == \A i \in 1..Len(file_list) : ~file_list[i].fails

\* C1 as stated: for files that decode to r1, r2, ... rows, offset >= 0 and
\* limit > 0, the multi-file reader returns exactly
\* min(limit, max(0, sum of the ri - offset)) rows.
C1_AsStated ==
    (MultiDone /\ num_rows > 0 /\ AllDecodable) =>
        /\ result.status = "ok"
        /\ Len(result.rows) = Min(num_rows, Max(0, TotalDecodable - offset))

\* C1 amended: the count holds whenever the files hold at least one row (a
\* file that raises counts as holding none); when they hold none the reader
\* raises "No data could be read" and returns nothing.
C1_RowCount ==
    (MultiDone /\ num_rows > 0) =>
        IF TotalDecodable > 0
        THEN /\ result.status = "ok"
             /\ Len(result.rows) = Min(num_rows, Max(0, TotalDecodable - offset))
        ELSE result.status = NoDataRead

C1_Witness ==
    /\ MultiDone
    /\ num_rows = 2
    /\ offset > RowsOf(1)
    /\ RowsOf(1) > 0
    /\ Len(dfs) = 2
    /\ result.status = "ok"
    /\ Len(result.rows) = 2
    /\ Len(concat(dfs)) > 2

\* C2: the rows returned are the window [offset, offset + limit) (or
\* [offset, end) when limit = 0) of the concatenation of all rows of the
\* decodable files, in order; the reader raises only when that window is
\* empty.
C2_WindowOfConcatenation ==
    MultiDone =>
        IF result.status = "ok"
        THEN result.rows = Window(AllRows, offset, num_rows)
        ELSE Window(AllRows, offset, num_rows) = <<>>

C2_Witness ==
    /\ MultiDone
    /\ Len(file_list) = 3
    /\ file_list[2].fails
    /\ offset > 0
    /\ num_rows > 0
    /\ result.status = "ok"
    /\ Len(result.rows) = num_rows
    /\ result.rows[1][1] = 1
    /\ result.rows[Len(result.rows)][1] = 3
    /\ Len(concat(dfs)) > num_rows

\* C10: a file that raises is skipped and the next file is processed, and
\* the reader fails only if no file yielded a decoded row.
C10_FailuresNotFatal ==
    /\ \A k \in 1..Len(opened) :
         (file_list[k].fails /\ k < Len(file_list)) =>
             (pc = "loop" \/ Len(opened) > k)
    /\ MultiDone =>
         (result.status # "ok" <=> \A i \in 1..Len(file_list) : RowsOf(i) = 0)

C10_Witness ==
    /\ MultiDone
    /\ file_list[1].fails
    /\ Len(file_list) = 3
    /\ file_list[3].fails
    /\ result.status = "ok"
    /\ result.rows # <<>>

SingleDone == pc = "done" /\ file_idx = 0 /\ Len(file_list) = 1

\* Rows first..last of the one file, in order.
RowsFromTo(first, last) == [k \in 1..Max(0, last - first + 1) |-> <<1, first + k - 1>>]

SingleBudgetAndSchema ==
    LET f == file_list[1]
        decoded == IF num_rows > 0 THEN Min(f.rows, offset + num_rows) ELSE f.rows
    IN  /\ opened = <<[file |-> 1,
                       budget |-> IF num_rows > 0 THEN offset + num_rows ELSE 0]>>
        /\ result.status = "ok"
        /\ offset >= decoded =>
             /\ result.rows = <<>>
             /\ result.columns = columns_of(f.schema)
             /\ result.schema = f.schema

SingleScenario ==
    (file_list[1].rows = 10 /\ offset = 8 /\ num_rows = 5) =>
        /\ opened[1].budget = 13
        /\ result.rows = << <<1, 9>>, <<1, 10>> >>

\* C3 as stated: read_data calls the decoder once with budget
\* offset + limit (0 when limit = 0), returns rows offset+1 ..
\* min(n, offset + limit) of a file of n rows, and returns an empty table
\* with the decoded schema when the offset covers every decoded row.
C3_AsStated ==
    (SingleDone /\ ~file_list[1].fails) =>
        /\ SingleBudgetAndSchema
        /\ result.rows = RowsFromTo(offset + 1, Min(file_list[1].rows, offset + num_rows))
        /\ SingleScenario

\* C3 amended: the last row returned is min(n, offset + limit) when
\* limit > 0 and n when limit = 0.
C3_SingleFileWindow ==
    (SingleDone /\ ~file_list[1].fails) =>
        /\ SingleBudgetAndSchema
        /\ result.rows =
             RowsFromTo(offset + 1,
                        IF num_rows > 0 THEN Min(file_list[1].rows, offset + num_rows)
                        ELSE file_list[1].rows)
        /\ SingleScenario

C3_Witness ==
    /\ SingleDone
    /\ file_list[1].rows = 10
    /\ offset = 8
    /\ num_rows = 5
    /\ opened[1].budget = 13
    /\ result.rows = << <<1, 9>>, <<1, 10>> >>

Prefix(s, n) == SubSeq(s, 1, n)

ColumnsIn(recorded) == UNION {{sch[k][1] : k \in 1..Len(sch)} : sch \in Range(recorded)}

TypesOf(recorded, col) ==
    {dict_get(sch, col) : sch \in {x \in Range(recorded) : dict_has(x, col)}}

\* A merged schema as a mapping: its set of (column, dtype) items.
Mapping(d) == Range(d)

\* C9: merging the recorded schemas in any order, or twice over, gives the
\* same column-to-type mapping; its columns are the union of the schemas'
\* columns; a column keeps its type when every schema that has it agrees
\* and is "object" as soon as two of them disagree.
C9_SchemaMerge ==
    pc \in {"merge", "merged"} =>
        LET seen == Prefix(schemas, file_idx)
        IN  /\ \A r \in Reorderings(seen) :
                 Mapping(merge_schemas(<<>>, r)) = Mapping(all_columns)
            /\ Mapping(merge_schemas(<<>>, seen \o seen)) = Mapping(all_columns)
            /\ Mapping(merge_schemas(all_columns, seen)) = Mapping(all_columns)
            /\ {all_columns[k][1] : k \in 1..Len(all_columns)} = ColumnsIn(seen)
            /\ Cardinality(ColumnsIn(seen)) = Len(all_columns)
            /\ \A col \in ColumnsIn(seen) :
                 dict_get(all_columns, col) =
                     IF Cardinality(TypesOf(seen, col)) = 1
                     THEN CHOOSE t \in TypesOf(seen, col) : TRUE
                     ELSE "object"

C9_Witness ==
    /\ pc = "merged"
    /\ Len(schemas) = 3
    /\ schemas[1] = << <<"id", "int64">>, <<"v", "int64">> >>
    /\ schemas[2] = << <<"v", "float64">> >>
    /\ schemas[3] = << <<"id", "int64">>, <<"v", "int64">> >>
    /\ all_columns = << <<"id", "int64">>, <<"v", "object">> >>

-----------------------------------------------------------------------------
(* Properties of the code after the multi-file loop.                       *)

\* C11: when the loop accumulated no rows, the reader returns an empty
\* result without failing if at least one row was skipped by the offset,
\* and raises "No data could be read" if none was, which is the case exactly
\* when every file was empty or failed.
C11_PostLoopEmpty ==
    (MultiDone /\ dfs = <<>>) =>
        /\ rows_skipped > 0 =>
             /\ result.status = "ok"
             /\ result.rows = <<>>
        /\ rows_skipped = 0 =>
             /\ result.status = NoDataRead
             /\ \A i \in 1..Len(file_list) : RowsOf(i) = 0
        /\ (\A i \in 1..Len(file_list) : RowsOf(i) = 0) => rows_skipped = 0

C11_Witness ==
    /\ MultiDone
    /\ dfs = <<>>
    /\ rows_skipped > 0
    /\ Len(file_list) = 3
    /\ file_list[2].fails
    /\ RowsOf(1) > 0
    /\ RowsOf(3) > 0
    /\ result.status = "ok"
    /\ result.rows = <<>>

-----------------------------------------------------------------------------
(* The WHERE clause: parse_where_clause.                                   *)

\* s.find(sub) + 1: the position of the first occurrence of sub, 0 if none.
find(s, sub) ==
    LET at == {i \in 1..(Len(s) - Len(sub) + 1) : SubSeq(s, i, i + Len(sub) - 1) = sub}
    IN  IF at = {} THEN 0 ELSE CHOOSE i \in at : \A j \in at : i <= j

\* str.strip(), the blank being the only whitespace of the model.
strip(s) ==
    LET solid == {k \in 1..Len(s) : s[k] # " "}
    IN  IF solid = {} THEN <<>>
        ELSE SubSeq(s, CHOOSE k \in solid : \A j \in solid : k <= j,
                       CHOOSE k \in solid : \A j \in solid : k >= j)

\* value[1:-1] when value starts and ends with the same kind of quote.
unquote(value) ==
    IF /\ value # <<>>
       /\ \/ (Head(value) = "\"" /\ value[Len(value)] = "\"")
          \/ (Head(value) = "'" /\ value[Len(value)] = "'")
    THEN SubSeq(value, 2, Len(value) - 1)
    ELSE value

\* The text of an operator.
op_text ==
    [ contains |-> <<"c", "o", "n", "t", "a", "i", "n", "s">>,
      startswith |-> <<"s", "t", "a", "r", "t", "s", "w", "i", "t", "h">>,
      endswith |-> <<"e", "n", "d", "s", "w", "i", "t", "h">> ] @@
    ("not contains" :> <<"n", "o", "t", " ", "c", "o", "n", "t", "a", "i", "n", "s">>) @@
    ("!=" :> <<"!", "=">>) @@ ("<=" :> <<"<", "=">>) @@ (">=" :> <<">", "=">>) @@
    ("=" :> <<"=">>) @@ ("<" :> <<"<">>) @@ (">" :> <<">">>)

multi_word_ops == <<"contains", "startswith", "endswith", "not contains">>

\* Mutant: the one-character operators are tried before the two-character ones.
comparison_ops_short_first == <<"=", "<", ">", "!=", "<=", ">=">>

comparison_ops == <<"!=", "<=", ">=", "=", "<", ">">>

InvalidWhereClause == "Invalid WHERE clause"

\* for op in [...]: if f' {op} ' in where_clause.lower(): ...
RECURSIVE parse_multi_word(_, _)
parse_multi_word(clause, ops) ==
    IF ops = <<>> THEN [status |-> "none"]
    ELSE LET op == Head(ops)
             at == find(lower(clause), <<" ">> \o op_text[op] \o <<" ">>)
         IN  IF at > 0
             THEN [status |-> "ok",
                   column |-> strip(SubSeq(clause, 1, at - 1)),
                   op |-> op,
                   value |-> unquote(strip(SubSeq(clause, at + Len(op_text[op]) + 2,
                                                  Len(clause))))]
             ELSE parse_multi_word(clause, Tail(ops))

\* for op in [...]: if op in where_clause: ...
RECURSIVE parse_comparison(_, _)
parse_comparison(clause, ops) ==
    IF ops = <<>> THEN [status |-> InvalidWhereClause]
    ELSE LET op == Head(ops)
             at == find(clause, op_text[op])
         IN  IF at > 0
             THEN [status |-> "ok",
                   column |-> strip(SubSeq(clause, 1, at - 1)),
                   op |-> op,
                   value |-> unquote(strip(SubSeq(clause, at + Len(op_text[op]),
                                                  Len(clause))))]
             ELSE parse_comparison(clause, Tail(ops))

parse_where_clause(clause) ==
    LET textual == parse_multi_word(clause, multi_word_ops)
    IN  IF textual.status = "ok" THEN textual
        ELSE parse_comparison(clause, comparison_ops)

-----------------------------------------------------------------------------
(* The WHERE filter: apply_where_filter on a column of strings.            *)
(* A cell is [na, text]: whether it is null, and its text (for a null, the *)
(* text str() gives it: "nan" for NaN, "None" for None).  cells[k] is the  *)
(* cell of the k-th row of a file in the text column "a".  Operands hold   *)
(* no regular-expression metacharacters.                                   *)

\* The text of a column name.
column_text ==
    [ a |-> <<"a">>, id |-> <<"i", "d">>, v |-> <<"v">>, w |-> <<"w">> ]

CellOf(row) == cells[row[2]]

\* Series.astype(str): a null becomes its text, unless the installed pandas
\* casts to its string dtype, which keeps nulls (pandas >= 1.3.0 is all
\* setup.py asks for).
astype_str(cell) ==
    IF cell.na /\ na_kept THEN cell ELSE [na |-> FALSE, text |-> cell.text]

\* Series.str.contains(pat, case=False, na=False) on one cell.
str_contains(cell, pat) ==
    IF cell.na THEN FALSE ELSE find(lower(cell.text), lower(pat)) > 0

\* Series.str.startswith(pat, na=False) on one cell.
str_startswith(cell, pat) ==
    IF cell.na THEN FALSE
    ELSE Len(pat) <= Len(cell.text) /\ SubSeq(cell.text, 1, Len(pat)) = pat

\* Series.str.endswith(pat, na=False) on one cell.
str_endswith(cell, pat) ==
    IF cell.na THEN FALSE ELSE endswith(cell.text, pat)

\* The mask of apply_where_filter on one cell of an object column: a null
\* compares unequal to everything and is in no order with anything.
mask(op, cell, value) ==
    CASE op = "=" -> ~cell.na /\ cell.text = value
      [] op = "!=" -> cell.na \/ cell.text # value
      [] op = "<" -> ~cell.na /\ StrLess(cell.text, value)
      [] op = ">" -> ~cell.na /\ StrLess(value, cell.text)
      [] op = "<=" -> ~cell.na /\ ~StrLess(value, cell.text)
      [] op = ">=" -> ~cell.na /\ ~StrLess(cell.text, value)
      [] op = "contains" -> str_contains(astype_str(cell), value)
      [] op = "not contains" -> ~str_contains(astype_str(cell), value)
      [] op = "startswith" -> str_startswith(astype_str(cell), value)
      [] op = "endswith" -> str_endswith(astype_str(cell), value)

UnknownColumn == "Column not found"

\* Mutant: the filter runs on every row of the files and the window is cut
\* from what it keeps.
apply_where_filter_before_window(df, clause) ==
    IF clause = <<>> \/ df.rows = <<>>
    THEN [status |-> "ok", rows |-> df.rows]
    ELSE LET p == parse_where_clause(clause)
         IN  IF p.status # "ok" THEN [status |-> "raised", error |-> p.status]
             ELSE IF \A k \in 1..Len(df.columns) : column_text[df.columns[k]] # p.column
             THEN [status |-> "raised", error |-> UnknownColumn]
             ELSE [status |-> "ok",
                   rows |-> Window(SelectSeq(AllRows,
                                             LAMBDA row : mask(p.op, CellOf(row), p.value)),
                                   offset, num_rows)]

\* apply_where_filter(df, where_clause), df being a reader's result.
apply_where_filter(df, clause) ==
    IF clause = <<>> \/ df.rows = <<>>
    THEN [status |-> "ok", rows |-> df.rows]
    ELSE LET p == parse_where_clause(clause)
         IN  IF p.status # "ok" THEN [status |-> "raised", error |-> p.status]
             ELSE IF \A k \in 1..Len(df.columns) : column_text[df.columns[k]] # p.column
             THEN [status |-> "raised", error |-> UnknownColumn]
             ELSE [status |-> "ok",
                   rows |-> SelectSeq(df.rows,
                                      LAMBDA row : mask(p.op, CellOf(row), p.value))]

-----------------------------------------------------------------------------
(* parse_where_clause applied to a clause.                                 *)

MaxTokens == 3

\* The pieces clauses are made of: names, a quote, a blank, the comparison
\* operators and the multi-word operators in several letter cases.
ClauseTokens ==
    { <<"a">>, <<"B">>, <<"'">>, <<" ">>,
      <<"=">>, <<"<">>, <<">">>, <<"!", "=">>, <<"<", "=">>, <<">", "=">>,
      <<" ", "c", "o", "n", "t", "a", "i", "n", "s", " ">>,
      <<" ", "N", "o", "t", " ", "C", "o", "n", "t", "a", "i", "n", "s", " ">>,
      <<" ", "S", "T", "A", "R", "T", "S", "W", "I", "T", "H", " ">>,
      <<" ", "e", "n", "d", "s", "w", "i", "t", "h", " ">> }

RECURSIVE Join(_)
Join(pieces) == IF pieces = <<>> THEN <<>> ELSE Head(pieces) \o Join(Tail(pieces))

AgeClause == <<"a", "g", "e", ">", "=", "3", "0">>
NameContainsClause == <<"n", "a", "m", "e", " ", "c", "o", "n", "t", "a", "i", "n", "s", " ", "j", "o", "h", "n">>
NameNotContainsClause == <<"n", "a", "m", "e", " ", "n", "o", "t", " ", "c", "o", "n", "t", "a", "i", "n", "s", " ", "j", "o", "h", "n">>

\* The clauses of at most max_tokens pieces, and the examples.
Clauses(max_tokens) ==
    {AgeClause, NameContainsClause, NameNotContainsClause} \cup
    UNION { {Join(t) : t \in [1..n -> ClauseTokens]} : n \in 0..max_tokens }

InitParse ==
    /\ SelectionIdle
    /\ ReaderIdle
    /\ opened = <<>>
    /\ pc = "start"
    /\ where \in Clauses(MaxTokens)
    /\ cells = <<>>
    /\ na_kept = FALSE
    /\ parsed = NoResult
    /\ shown = NoResult
    /\ PathIdle
    /\ columns = <<>>
    /\ MainIdle

\* apply_where_filter calls parse_where_clause on the clause.
CallParseWhereClause ==
    /\ pc = "start"
    /\ parsed' = parse_where_clause(where)
    /\ pc' = "parsed"
    /\ UNCHANGED <<files, input_format, max_size_mb, selected, opened, all_columns,
                   where, cells, na_kept, shown>>
    /\ UNCHANGED readVars
    /\ UNCHANGED pathVars
    /\ UNCHANGED columns
    /\ UNCHANGED mainVars

NextParse == CallParseWhereClause

SpecParse == InitParse /\ [][NextParse]_vars

-----------------------------------------------------------------------------
(* Properties of parse_where_clause.                                       *)

Occurs(sub, s) == \E i \in 1..(Len(s) - Len(sub) + 1) : SubSeq(s, i, i + Len(sub) - 1) = sub

\* s is cut at the first occurrence of sub into the given column and value.
SplitsAtFirst(s, hay, sub, column, value) ==
    \E i \in 1..(Len(hay) - Len(sub) + 1) :
        /\ SubSeq(hay, i, i + Len(sub) - 1) = sub
        /\ \A j \in 1..(i - 1) : SubSeq(hay, j, j + Len(sub) - 1) # sub
        /\ column = strip(SubSeq(s, 1, i - 1))
        /\ value = unquote(strip(SubSeq(s, i + Len(sub), Len(s))))

Spaced(text) == <<" ">> \o text \o <<" ">>

HasMultiWord(s) ==
    \E op \in {"contains", "startswith", "endswith", "not contains"} :
        Occurs(Spaced(op_text[op]), lower(s))

\* The first of !=, <=, >= that occurs in s.
FirstTwoCharOp(s) ==
    IF Occurs(<<"!", "=">>, s) THEN "!="
    ELSE IF Occurs(<<"<", "=">>, s) THEN "<="
    ELSE ">="

HasTwoCharOp(s) ==
    Occurs(<<"!", "=">>, s) \/ Occurs(<<"<", "=">>, s) \/ Occurs(<<">", "=">>, s)

\* C12: a clause without a multi-word operator that contains one of !=, <=,
\* >= parses to that operator (the first of !=, <=, >= it contains), never
\* to =, < or >, cut at the operator's first occurrence; "age>=30" parses to
\* (age, >=, 30); a clause containing " contains " parses to the multi-word
\* operator contains whatever comparison operators it holds.
C12_OperatorPrecedence ==
    pc = "parsed" =>
        /\ (~HasMultiWord(where) /\ HasTwoCharOp(where)) =>
             /\ parsed.status = "ok"
             /\ parsed.op = FirstTwoCharOp(where)
             /\ SplitsAtFirst(where, where, op_text[parsed.op],
                              parsed.column, parsed.value)
        /\ where = AgeClause =>
             parsed = [status |-> "ok", column |-> <<"a", "g", "e">>,
                       op |-> ">=", value |-> <<"3", "0">>]
        /\ Occurs(Spaced(op_text["contains"]), lower(where)) =>
             /\ parsed.status = "ok"
             /\ parsed.op = "contains"
             /\ SplitsAtFirst(where, lower(where), Spaced(op_text["contains"]),
                              parsed.column, parsed.value)
        /\ where = NameContainsClause =>
             parsed = [status |-> "ok", column |-> <<"n", "a", "m", "e">>,
                       op |-> "contains", value |-> <<"j", "o", "h", "n">>]

C12_Witness ==
    /\ pc = "parsed"
    /\ where = <<"a", ">", "=", "B">>
    /\ parsed = [status |-> "ok", column |-> <<"a">>, op |-> ">=", value |-> <<"B">>]

\* where is '<col> not contains <val>' with a column and a value.
NotContainsForm ==
    \E i \in 2..(Len(where) - Len(Spaced(op_text["not contains"])) + 1) :
        LET sub == Spaced(op_text["not contains"])
        IN  /\ SubSeq(lower(where), i, i + Len(sub) - 1) = sub
            /\ strip(SubSeq(where, 1, i - 1)) # <<>>
            /\ strip(SubSeq(where, i + Len(sub), Len(where))) # <<>>

\* C13: every clause '<col> not contains <val>' parses to the operator
\* 'not contains' with the text before it as column and the text after it
\* as value.
C13_NotContains ==
    (pc = "parsed" /\ NotContainsForm) =>
        /\ parsed.status = "ok"
        /\ parsed.op = "not contains"
        /\ SplitsAtFirst(where, lower(where), Spaced(op_text["not contains"]),
                         parsed.column, parsed.value)

-----------------------------------------------------------------------------
(* main applies the WHERE filter to what the reader returned.              *)

MaxCells == 2

NaN == [na |-> TRUE, text |-> <<"n", "a", "n">>]
None == [na |-> TRUE, text |-> <<"N", "o", "n", "e">>]

CellTexts == { <<"a">>, <<"B">>, <<"a", "B">>, <<"B", "a">> }

CellValues == {NaN, None} \cup [na : {FALSE}, text : CellTexts]

Operands == { <<"a">>, <<"b">>, <<"B">> }

FilterOps ==
    { <<" ", "c", "o", "n", "t", "a", "i", "n", "s", " ">>,
      <<" ", "n", "o", "t", " ", "c", "o", "n", "t", "a", "i", "n", "s", " ">>,
      <<" ", "s", "t", "a", "r", "t", "s", "w", "i", "t", "h", " ">>,
      <<" ", "e", "n", "d", "s", "w", "i", "t", "h", " ">>,
      <<"=">>, <<"<">> }

\* No clause, 'a <op> <operand>', a clause on a column the table lacks and
\* a clause without an operator.
FilterClauses ==
    { <<>>, <<"B", "=", "a">>, <<"a">> } \cup
    { <<"a">> \o op \o operand : op \in FilterOps, operand \in Operands }

TextSchema == << <<"a", "object">> >>

\* The table a reader returned: n rows of one file with the text column "a".
TextTable(n) ==
    [status |-> "ok", rows |-> [k \in 1..n |-> <<1, k>>],
     columns |-> columns_of(TextSchema), schema |-> TextSchema]

InitWhere ==
    /\ SelectionIdle
    /\ opened = <<>>
    /\ file_list = <<>>
    /\ num_rows = 0
    /\ offset = 0
    /\ file_idx = 0
    /\ remaining_offset = 0
    /\ rows_read = 0
    /\ rows_skipped = 0
    /\ total_rows = 0
    /\ dfs = <<>>
    /\ schemas = <<>>
    /\ all_columns = <<>>
    /\ pc = "done"
    /\ \E n \in 1..MaxCells :
         /\ result = TextTable(n)
         /\ cells \in [1..n -> CellValues]
    /\ where \in FilterClauses
    /\ na_kept \in BOOLEAN
    /\ parsed = NoResult
    /\ shown = NoResult
    /\ PathIdle
    /\ columns = <<>>
    /\ MainIdle

\* main: `if where and not df.empty: df = apply_where_filter(df, where)`,
\* after which df is what gets rendered.
MainApplyWhere ==
    /\ pc = "done"
    /\ result.status = "ok"
    /\ shown' = apply_where_filter(result, where)
    /\ parsed' = IF where # <<>> /\ result.rows # <<>>
                 THEN parse_where_clause(where) ELSE parsed
    /\ pc' = "rendered"
    /\ UNCHANGED <<files, input_format, max_size_mb, selected, opened, all_columns,
                   where, cells, na_kept>>
    /\ UNCHANGED readVars
    /\ UNCHANGED pathVars
    /\ UNCHANGED columns
    /\ UNCHANGED mainVars

NextWhere == MainApplyWhere

SpecWhere == InitWhere /\ [][NextWhere]_vars

-----------------------------------------------------------------------------
(* Properties of the WHERE filter.                                         *)

Filtered == pc = "rendered" /\ parsed # NoResult /\ parsed.status = "ok"

TextualOps == {"contains", "not contains", "startswith", "endswith"}

\* Whether text matches the operand under a textual operator, letter case
\* ignored.
MatchesIgnoringCase(op, text, operand) ==
    LET t == lower(text)
        o == lower(operand)
    IN  CASE op = "contains" -> Occurs(o, t)
          [] op = "not contains" -> ~Occurs(o, t)
          [] op = "startswith" -> Len(o) <= Len(t) /\ SubSeq(t, 1, Len(o)) = o
          [] op = "endswith" -> Len(o) <= Len(t) /\ SubSeq(t, Len(t) - Len(o) + 1, Len(t)) = o

\* C14: under each textual operator a row with a value is kept exactly
\* when the value matches the operand with letter case ignored.
C14_CaseInsensitive ==
    (Filtered /\ parsed.op \in TextualOps /\ shown.status = "ok") =>
        \A row \in Range(result.rows) :
            ~CellOf(row).na =>
                (row \in Range(shown.rows)
                    <=> MatchesIgnoringCase(parsed.op, CellOf(row).text, parsed.value))

\* C15: under each textual operator the filter raises nothing and no row
\* whose value is null is part of the result.
C15_NullsNeverMatch ==
    (Filtered /\ parsed.op \in TextualOps) =>
        /\ shown.status = "ok"
        /\ \A row \in Range(shown.rows) : ~CellOf(row).na

-----------------------------------------------------------------------------
(* strip_compression_extension.                                            *)

compression_exts ==
    << <<".", "g", "z">>, <<".", "g", "z", "i", "p">>, <<".", "z", "s", "t">>, <<".", "z", "s", "t", "d">>,
       <<".", "l", "z", "4">>, <<".", "s", "n", "a", "p", "p", "y">>, <<".", "b", "z", "2">> >>

\* Mutant: the extensions are compared with the path as written.
RECURSIVE strip_loop_case_sensitive(_, _)
strip_loop_case_sensitive(p, exts) ==
    IF exts = <<>> THEN p
    ELSE IF endswith(p, Head(exts))
    THEN SubSeq(p, 1, Len(p) - Len(Head(exts)))
    ELSE strip_loop_case_sensitive(p, Tail(exts))

\* for ext in compression_exts: if path_lower.endswith(ext): return path[:-len(ext)]
RECURSIVE strip_loop(_, _)
strip_loop(p, exts) ==
    IF exts = <<>> THEN p
    ELSE IF endswith(lower(p), Head(exts))
    THEN SubSeq(p, 1, Len(p) - Len(Head(exts)))
    ELSE strip_loop(p, Tail(exts))

strip_compression_extension(p) == strip_loop(p, compression_exts)

MaxPathTokens == 3

\* The pieces paths are made of: a stem, format extensions and the
\* compression extensions in several letter cases.
PathTokens ==
    { <<"a">>, <<".", "c", "s", "v">>, <<".", "J", "S", "O", "N">>,
      <<".", "g", "z">>, <<".", "G", "Z">>, <<".", "g", "z", "i", "p">>, <<".", "z", "s", "t">>, <<".", "Z", "s", "t", "d">>,
      <<".", "l", "z", "4">>, <<".", "s", "n", "a", "p", "p", "y">>, <<".", "b", "z", "2">>, <<".", "B", "Z", "2">> }

\* The paths of at most max_tokens pieces.
Paths(max_tokens) == UNION { {Join(t) : t \in [1..n -> PathTokens]} : n \in 0..max_tokens }

InitStrip ==
    /\ SelectionIdle
    /\ ReaderIdle
    /\ WhereIdle
    /\ opened = <<>>
    /\ pc = "start"
    /\ path \in Paths(MaxPathTokens)
    /\ stripped = <<>>
    /\ columns = <<>>
    /\ MainIdle

\* detect_format_from_path calls strip_compression_extension on the path.
CallStripCompressionExtension ==
    /\ pc = "start"
    /\ stripped' = strip_compression_extension(path)
    /\ pc' = "stripped"
    /\ UNCHANGED <<files, input_format, max_size_mb, selected, opened, all_columns, path>>
    /\ UNCHANGED readVars
    /\ UNCHANGED whereVars
    /\ UNCHANGED columns
    /\ UNCHANGED mainVars

NextStrip == CallStripCompressionExtension

SpecStrip == InitStrip /\ [][NextStrip]_vars

-----------------------------------------------------------------------------
(* Properties of strip_compression_extension.                              *)

CompressionSuffixes == Range(compression_exts)

\* The ways to write path as base + suffix with a compression suffix in
\* any letter case.
Splits ==
    { k \in 0..Len(path) : lower(SubSeq(path, k + 1, Len(path))) \in CompressionSuffixes }

\* C16: whenever the path is base + suffix for a compression suffix in any
\* letter case the result is base, so that base + suffix is the path again
\* and exactly that one suffix is gone; a path with no compression suffix
\* comes back unchanged.
C16_StripRoundTrip ==
    pc = "stripped" =>
        /\ \A k \in Splits :
             /\ stripped = SubSeq(path, 1, k)
             /\ stripped \o SubSeq(path, k + 1, Len(path)) = path
        /\ Splits = {} => stripped = path

C16_Witness ==
    /\ pc = "stripped"
    /\ path = <<"a", ".", "g", "z", ".", "G", "Z">>
    /\ stripped = <<"a", ".", "g", "z">>

-----------------------------------------------------------------------------
(* The scenario of two files with 3 and 4 rows, offset 5 and limit 1.      *)

ThreeAndFour ==
    /\ Len(file_list) = 2
    /\ AllDecodable
    /\ file_list[1].rows = 3
    /\ file_list[2].rows = 4
    /\ offset = 5
    /\ num_rows = 1

\* The position of a row in the concatenation of all files, from 1.
OverallIndex(row) == SumRows(row[1] - 1) + row[2]

\* What the scenario says of the loop, up to the row it returns.
ThreeAndFourSteps ==
    /\ (file_idx = 1 /\ pc = "loop") =>
         /\ remaining_offset = 2
         /\ rows_skipped = 3
         /\ dfs = <<>>
    /\ (file_idx = 2 /\ pc \in {"post", "done"}) =>
         /\ rows_skipped = 5
         /\ remaining_offset = 0
         /\ Len(dfs) = 1
         /\ Len(dfs[1]) = 1
    /\ MultiDone =>
         /\ result.status = "ok"
         /\ Len(result.rows) = 1

\* C17 as stated: the first file is skipped whole and leaves an offset of
\* 2, the second file loses its first 2 rows and contributes 1 row, and
\* that row is row 8 of the concatenation.
C17_AsStated ==
    ThreeAndFour =>
        /\ ThreeAndFourSteps
        /\ MultiDone => OverallIndex(result.rows[1]) = 8

\* C17 amended: the row returned is row 6 of the concatenation, the third
\* row of the second file.
C17_ThreeAndFour ==
    ThreeAndFour =>
        /\ ThreeAndFourSteps
        /\ MultiDone =>
             /\ OverallIndex(result.rows[1]) = 6
             /\ result.rows = << <<2, 3>> >>

C17_Witness ==
    /\ ThreeAndFour
    /\ MultiDone
    /\ rows_skipped = 5
    /\ result.rows = << <<2, 3>> >>

-----------------------------------------------------------------------------
(* File selection on the listing of test_get_files_for_multiread_gcs.      *)

Data1Csv == <<"d", "a", "t", "a", "1", ".", "c", "s", "v">>
Data2Csv == <<"d", "a", "t", "a", "2", ".", "c", "s", "v">>
Data3Csv == <<"d", "a", "t", "a", "3", ".", "c", "s", "v">>

TestEntries ==
    { <<Data1Csv, 1024>>, <<Data2Csv, 2048>>, <<SuccessMarker, 0>>, <<Data3Csv, 4096>> }

TestListing ==
    << <<Data1Csv, 1024>>, <<Data2Csv, 2048>>, <<SuccessMarker, 0>>, <<Data3Csv, 4096>> >>

\* Every listing of some of the entries, in any order.
TestListings ==
    UNION { { l \in [1..n -> TestEntries] : \A i, j \in 1..n : i # j => l[i] # l[j] }
            : n \in 0..Cardinality(TestEntries) }

\* max_size_mb as the tests pass it, and its default.
TestMaxSizeMb == {1, 2, 25}

InitSelectTest ==
    /\ files \in TestListings
    /\ input_format \in InputFormats
    /\ max_size_mb \in TestMaxSizeMb
    /\ pc = "start"
    /\ selected = NoSelection
    /\ opened = <<>>
    /\ ReaderIdle
    /\ WhereIdle
    /\ PathIdle
    /\ columns = <<>>
    /\ MainIdle

SpecSelectTest == InitSelectTest /\ [][NextSelect]_vars

\* C18: on the listing [(data1.csv, 1024), (data2.csv, 2048), (_SUCCESS, 0),
\* (data3.csv, 4096)] with max_size_mb = 1, get_files_for_multiread returns
\* exactly [(data1.csv, 1024), (data2.csv, 2048)].
C18_TestListing ==
    (AfterMultiread /\ files = TestListing /\ max_size_mb = 1 /\ input_format = "") =>
        /\ selected.status = "ok"
        /\ selected.value = << <<Data1Csv, 1024>>, <<Data2Csv, 2048>> >>

-----------------------------------------------------------------------------
(* The decoders of cli.py with a column projection (read_csv_data; the     *)
(* JSON, Avro and text decoders project the same way).                     *)

\* valid_cols = [c for c in cols if c in full_df.columns]
valid_cols(cols, schema) == SelectSeq(cols, LAMBDA c : dict_has(schema, c))

\* read_csv_data(stream, num_rows, columns): the table keeps the rows of
\* full_df and the valid requested columns (every column when no projection
\* is given); the schema returned is the one of full_df.
read_csv_data(f, budget, cols) ==
    IF f.fails THEN [status |-> "raised"]
    ELSE [status |-> "ok",
          rows |-> decode(1, f, budget),
          columns |-> IF cols # <<>> THEN valid_cols(cols, f.schema)
                      ELSE columns_of(f.schema),
          schema |-> f.schema,
          warned |-> cols # <<>> /\ Len(valid_cols(cols, f.schema)) # Len(cols)]

MaxColumns == 2

\* The names a projection may ask for; "x" is in no file.
ColumnNames == {"id", "v", "w", "x"}

Projections == UNION { [1..n -> ColumnNames] : n \in 0..MaxColumns }

InitDecode ==
    /\ SelectionIdle
    /\ WhereIdle
    /\ PathIdle
    /\ file_list \in FileLists(1, MaxRows)
    /\ num_rows \in 0..MaxLimit
    /\ columns \in Projections
    /\ MainIdle
    /\ offset = 0
    /\ pc = "start"
    /\ opened = <<>>
    /\ file_idx = 0
    /\ remaining_offset = 0
    /\ rows_read = 0
    /\ rows_skipped = 0
    /\ total_rows = 0
    /\ dfs = <<>>
    /\ schemas = <<>>
    /\ all_columns = <<>>
    /\ result = NoResult

\* A reader calls the decoder on the stream with the row budget and the
\* projection.
CallReadCsvData ==
    /\ pc = "start"
    /\ result' = read_csv_data(file_list[1], num_rows, columns)
    /\ pc' = "decoded"
    /\ UNCHANGED <<files, input_format, max_size_mb, selected, opened, file_list,
                   num_rows, offset, file_idx, remaining_offset, rows_read,
                   rows_skipped, total_rows, dfs, schemas, all_columns, columns>>
    /\ UNCHANGED whereVars
    /\ UNCHANGED pathVars
    /\ UNCHANGED mainVars

NextDecode == CallReadCsvData

SpecDecode == InitDecode /\ [][NextDecode]_vars

Requested == Range(columns)

Existing == {file_list[1].schema[k][1] : k \in 1..Len(file_list[1].schema)}

\* C19: with a projection, if no requested column exists decoding fails
\* instead of returning a table; if some exist the table has exactly the
\* requested columns that exist, unknown ones are dropped with a warning,
\* and the schema returned is the full schema of the file.
C19_Projection ==
    (pc = "decoded" /\ columns # <<>> /\ ~file_list[1].fails) =>
        /\ Requested \cap Existing = {} => result.status = "raised"
        /\ Requested \cap Existing # {} =>
             /\ result.status = "ok"
             /\ Range(result.columns) = Requested \cap Existing
             /\ result.schema = file_list[1].schema
             /\ (~(Requested \subseteq Existing)) => result.warned

-----------------------------------------------------------------------------
(* main: a reader, then the WHERE filter on what it returned.              *)

MaxFilesMain == 2
MaxRowsMain == 2
MaxOffsetMain == 2
MaxLimitMain == 1

\* Files with the one text column "a"; a file may also fail to decode.
TextFiles(max_rows) ==
    {FailingFile} \cup [rows : 0..max_rows, fails : {FALSE}, schema : {TextSchema}]

TextFileLists(max_files, max_rows) ==
    UNION { [1..n -> TextFiles(max_rows)] : n \in 1..max_files }

MainClauses ==
    { <<>>,
      <<"a", " ", "c", "o", "n", "t", "a", "i", "n", "s", " ", "b">>,
      <<"a", "=", "a">> }

\* main reads one object with read_data or a directory with
\* read_data_from_multiple_files.
InitMain ==
    /\ SelectionIdle
    /\ PathIdle
    /\ columns = <<>>
    /\ MainIdle
    /\ \/ /\ pc = "loop"
          /\ file_list \in TextFileLists(MaxFilesMain, MaxRowsMain)
       \/ /\ pc = "start"
          /\ file_list \in TextFileLists(1, MaxRowsMain)
    /\ num_rows \in 0..MaxLimitMain
    /\ offset \in 0..MaxOffsetMain
    /\ cells \in [1..MaxRowsMain -> [na : {FALSE}, text : {<<"a">>, <<"B">>}]]
    /\ where \in MainClauses
    /\ na_kept = FALSE
    /\ parsed = NoResult
    /\ shown = NoResult
    /\ opened = <<>>
    /\ file_idx = 0
    /\ remaining_offset = offset
    /\ rows_read = 0
    /\ rows_skipped = 0
    /\ total_rows = 0
    /\ dfs = <<>>
    /\ schemas = <<>>
    /\ all_columns = <<>>
    /\ result = NoResult

NextMain ==
    \/ ProcessFile
    \/ FinishMulti
    \/ CallReadData
    \/ MainApplyWhere

SpecMain == InitMain /\ [][NextMain]_vars

\* s is t with some rows left out, the others in the same order.
RECURSIVE IsSubsequence(_, _)
IsSubsequence(s, t) ==
    IF s = <<>> THEN TRUE
    ELSE IF t = <<>> THEN FALSE
    ELSE IF Head(s) = Head(t) THEN IsSubsequence(Tail(s), Tail(t))
    ELSE IsSubsequence(s, Tail(t))

\* The rows of the files that match the clause, whatever the window.
MatchingRows ==
    SelectSeq(AllRows, LAMBDA row : mask(parsed.op, CellOf(row), parsed.value))

\* C20: the rows rendered are a subsequence of the rows the reader
\* returned, so they all lie in the window [offset, offset + limit) of the
\* files' rows and are at most limit many, even if rows beyond the window
\* match.
C20_FilterAfterWindow ==
    (pc = "rendered" /\ shown.status = "ok") =>
        /\ IsSubsequence(shown.rows, result.rows)
        /\ Range(shown.rows) \subseteq Range(Window(AllRows, offset, num_rows))
        /\ num_rows > 0 => Len(shown.rows) <= num_rows
        /\ Filtered =>
             shown.rows = SelectSeq(Window(AllRows, offset, num_rows),
                                    LAMBDA row : row \in Range(MatchingRows))

C20_Witness ==
    /\ pc = "rendered"
    /\ Filtered
    /\ shown.status = "ok"
    /\ Len(file_list) = 2
    /\ num_rows = 1
    /\ result.rows # <<>>
    /\ shown.rows = <<>>
    /\ \E row \in Range(MatchingRows) : row \notin Range(result.rows)

-----------------------------------------------------------------------------
(* Properties of the multi-file loop: budgets, order of opening, counts.   *)

\* A step of the loop that opens a file.
OpensFile == Len(opened') = Len(opened) + 1

\* C21: with limit > 0 the budget handed to the decoder for each opened
\* file is remaining_offset + (limit - rows accumulated so far), and a
\* budget of 0 is handed out only when the limit is 0.
C21_BudgetPerFile ==
    [][(OpensFile /\ ~file_list[file_idx'].fails) =>
         /\ num_rows > 0 =>
              opened'[Len(opened')].budget = remaining_offset + (num_rows - rows_read)
         /\ opened'[Len(opened')].budget = 0 <=> num_rows = 0]_vars

\* C22: files are opened one at a time in list order, each only after the
\* files before it are done with, and only while the rows accumulated are
\* fewer than the limit; once the limit is reached no stream is opened.
C22_SequentialOpening ==
    /\ [](\A k \in 1..Len(opened) : opened[k].file = k)
    /\ [][OpensFile =>
            /\ opened'[Len(opened')].file = file_idx + 1
            /\ Len(opened) = file_idx
            /\ num_rows > 0 => rows_read < num_rows]_vars
    /\ [][(num_rows > 0 /\ rows_read >= num_rows) => opened' = opened]_vars

C22_Witness ==
    /\ MultiDone
    /\ num_rows > 0
    /\ rows_read >= num_rows
    /\ Len(file_list) = 3
    /\ Len(opened) = 1
    /\ RowsOf(2) > 0

\* The rows the decode of the k-th opened file returned under its budget;
\* a file that raised returned none.
DecodedUnderBudget(k) ==
    IF file_list[k].fails THEN 0
    ELSE IF opened[k].budget > 0 THEN Min(file_list[k].rows, opened[k].budget)
    ELSE file_list[k].rows

RECURSIVE SumDecoded(_)
SumDecoded(n) == IF n = 0 THEN 0 ELSE SumDecoded(n - 1) + DecodedUnderBudget(n)

\* C23: the total returned by the multi-file reader is the sum, over the
\* files opened and decoded before the loop stopped, of the rows each
\* decode returned under its budget, before the offset and the limit are
\* applied; unopened files, failed files and rows beyond a budget add
\* nothing.
C23_TotalRows ==
    (MultiDone /\ result.status = "ok") =>
        result.total = SumDecoded(Len(opened))

C23_Witness ==
    /\ MultiDone
    /\ result.status = "ok"
    /\ Len(file_list) = 3
    /\ file_list[1].fails
    /\ Len(opened) = 2
    /\ RowsOf(2) > opened[2].budget
    /\ opened[2].budget > Len(result.rows)
    /\ RowsOf(3) > 0
    /\ result.total = opened[2].budget

-----------------------------------------------------------------------------
(* Further properties of file selection.                                   *)

\* C24: get_files_for_multiread never raises "No suitable files found":
\* whenever the listing holds a file of size > 0 the selection holds at
\* least one file, for every max_size_mb, zero and negative included.
C24_NoSuitableFilesUnreachable ==
    AfterMultiread =>
        /\ selected.status # "No suitable files found"
        /\ NonEmptyEntries # {} =>
             /\ selected.status = "ok"
             /\ Len(selected.value) >= 1

C24_Witness ==
    /\ AfterMultiread
    /\ max_size_mb < 0
    /\ Cardinality(NonEmptyEntries) >= 2
    /\ selected.status = "ok"
    /\ Len(selected.value) = 1

-----------------------------------------------------------------------------
(* Further properties of the multi-file reader.                            *)

\* C25: every file that decoded at least one row has its columns in the
\* schema the multi-file reader returns, whether or not any of its rows
\* survived the offset, also when the offset consumed every decoded row and
\* the table returned is empty.
C25_SchemaOfEveryDecodedFile ==
    (MultiDone /\ result.status = "ok") =>
        \A k \in 1..Len(opened) :
            DecodedUnderBudget(k) > 0 =>
                \A i \in 1..Len(file_list[k].schema) :
                    dict_has(result.schema, file_list[k].schema[i][1])

\* C27: for every listing and format filter, the file returned by
\* find_first_non_empty_file is the first file of the list returned by
\* get_files_for_multiread, for every max_size_mb, and the two fail on the
\* same listings.
C27_FirstIsHeadOfMultiread ==
    /\ AfterFirst =>
         \A mb \in MaxSizeMbValues :
             LET multi == get_files_for_multiread(files, input_format, mb)
             IN  /\ multi.status = selected.status
                 /\ selected.status = "ok" => multi.value[1][1] = selected.value
    /\ AfterMultiread =>
         LET first == find_first_non_empty_file(files, input_format)
         IN  /\ first.status = selected.status
             /\ selected.status = "ok" => selected.value[1][1] = first.value

C27_Witness ==
    /\ AfterFirst
    /\ selected.status = "ok"
    /\ input_format = "csv"
    /\ Len(files) = 3
    /\ files[1] = <<BCsv, 100 * BytesPerMB>>
    /\ files[2][1] = ACrc
    /\ files[2][2] > 0
    /\ files[3][1] = ACsv
    /\ selected.value = ACsv

-----------------------------------------------------------------------------
(* main: the choice of the acquisition strategy.                           *)

MaxDirListing == 2

\* is_directory = object_path.endswith('/')
is_directory(object_path) == endswith(object_path, <<"/">>)

\* Mutant: auto takes the first-file strategy only for max_size_mb = 0.
use_first_file_zero_only(mode, mb) == mode = "first" \/ (mode = "auto" /\ mb = 0)

\* The condition under which main reads a single file of a directory.
use_first_file(mode, mb) == mode = "first" \/ (mode = "auto" /\ mb <= 0)

detect_format_from_path(p) ==
    LET path_lower == lower(strip_compression_extension(p))
    IN  IF \/ endswith(path_lower, <<".", "j", "s", "o", "n">>)
           \/ endswith(path_lower, <<".", "j", "s", "o", "n", "l">>)
           \/ endswith(path_lower, <<".", "n", "d", "j", "s", "o", "n">>)
        THEN [status |-> "ok", value |-> "json"]
        ELSE IF endswith(path_lower, <<".", "c", "s", "v">>)
        THEN [status |-> "ok", value |-> "csv"]
        ELSE IF endswith(path_lower, <<".", "p", "a", "r", "q", "u", "e", "t">>)
        THEN [status |-> "ok", value |-> "parquet"]
        ELSE IF endswith(path_lower, <<".", "a", "v", "r", "o">>)
        THEN [status |-> "ok", value |-> "avro"]
        ELSE IF endswith(path_lower, <<".", "o", "r", "c">>)
        THEN [status |-> "ok", value |-> "orc"]
        ELSE IF \/ endswith(path_lower, <<".", "t", "x", "t">>)
                \/ endswith(path_lower, <<".", "l", "o", "g">>)
        THEN [status |-> "ok", value |-> "text"]
        ELSE [status |-> "Could not infer format", value |-> ""]

\* One call main makes: the function, the object or objects it is given
\* (the directory for the selection functions) and the format it is given.
Call(fn, target, fmt) == [fn |-> fn, target |-> target, fmt |-> fmt]

\* The names of a selected file list.
names_of(list) == [k \in 1..Len(list) |-> list[k][1]]

\* Inputs: directories, single objects, and listings that hold a
\* compressed data file, a plain one and metadata files.
ACsvGz == <<"a", ".", "c", "s", "v", ".", "g", "z">>
DirSlash == <<"d", "/">>
DirNoSlash == <<"d">>
AcquirePaths == {DirSlash, DirNoSlash, ACsv, ACsvGz, <<>>}
DirNames == {ACsvGz, BCsv, ACrc, SuccessMarker}
DirSizes == {0, 10 * BytesPerMB}
MultiFileModes == {"first", "auto", "all"}
AcquireFormats == {"", "csv", "json"}
AcquireMaxSizeMb == {-1, 0, 25}

DirListings(max_entries) ==
    UNION { { l \in [1..n -> DirNames \X DirSizes] :
                \A i, j \in 1..n : i # j => l[i][1] # l[j][1] }
            : n \in 0..max_entries }

InitAcquire ==
    /\ files \in DirListings(MaxDirListing)
    /\ input_format \in AcquireFormats
    /\ max_size_mb \in AcquireMaxSizeMb
    /\ multi_file_mode \in MultiFileModes
    /\ path \in AcquirePaths
    /\ stripped = <<>>
    /\ calls = <<>>
    /\ first_file = <<>>
    /\ pc = "start"
    /\ selected = NoSelection
    /\ opened = <<>>
    /\ ReaderIdle
    /\ WhereIdle
    /\ columns = <<>>

\* The directory branch that reads a single file.
MainFirstFile ==
    /\ pc = "start"
    /\ is_directory(path)
    /\ use_first_file(multi_file_mode, max_size_mb)
    /\ LET first == find_first_non_empty_file(files, input_format)
           find_call == Call("find_first_non_empty_file", path, input_format)
           detected == IF input_format = "" /\ first.status = "ok"
                       THEN detect_format_from_path(first.value)
                       ELSE [status |-> "ok", value |-> input_format]
       IN  /\ selected' = [call |-> "first"] @@ first
           /\ IF first.status # "ok" \/ detected.status # "ok"
              THEN /\ calls' = <<find_call>>
                   /\ pc' = "raised"
                   /\ UNCHANGED input_format
              ELSE /\ calls' = <<find_call, Call("read_data", first.value, detected.value)>>
                   /\ pc' = "acquired"
                   /\ input_format' = detected.value
    /\ UNCHANGED <<files, max_size_mb, opened, all_columns, multi_file_mode,
                   first_file, path, stripped, columns>>
    /\ UNCHANGED readVars
    /\ UNCHANGED whereVars

\* The directory branch that reads several files.
MainMultiFile ==
    /\ pc = "start"
    /\ is_directory(path)
    /\ ~use_first_file(multi_file_mode, max_size_mb)
    /\ LET first == IF input_format = ""
                    THEN find_first_non_empty_file(files, "")
                    ELSE [status |-> "ok", value |-> <<>>]
           infer_calls == IF input_format = ""
                          THEN <<Call("find_first_non_empty_file", path, "")>>
                          ELSE <<>>
           detected == IF input_format = "" /\ first.status = "ok"
                       THEN detect_format_from_path(first.value)
                       ELSE [status |-> "ok", value |-> input_format]
           list == get_files_for_multiread(files, detected.value, max_size_mb)
       IN  IF first.status # "ok" \/ detected.status # "ok"
           THEN /\ calls' = infer_calls
                /\ pc' = "raised"
                /\ first_file' = first.value
                /\ UNCHANGED <<input_format, selected>>
           ELSE /\ first_file' = first.value
                /\ input_format' = detected.value
                /\ selected' = [call |-> "multiread"] @@ list
                /\ IF list.status # "ok"
                   THEN /\ calls' = Append(infer_calls,
                                        Call("get_files_for_multiread", path, detected.value))
                        /\ pc' = "raised"
                   ELSE /\ calls' = infer_calls \o
                                    <<Call("get_files_for_multiread", path, detected.value),
                                      Call("read_data_from_multiple_files",
                                           names_of(list.value), detected.value)>>
                        /\ pc' = "acquired"
    /\ UNCHANGED <<files, max_size_mb, opened, all_columns, multi_file_mode,
                   path, stripped, columns>>
    /\ UNCHANGED readVars
    /\ UNCHANGED whereVars

\* The branch of a path that names one object.
MainSingleFile ==
    /\ pc = "start"
    /\ ~is_directory(path)
    /\ LET detected == IF input_format = ""
                       THEN detect_format_from_path(path)
                       ELSE [status |-> "ok", value |-> input_format]
       IN  IF detected.status # "ok"
           THEN /\ calls' = <<>>
                /\ pc' = "raised"
                /\ UNCHANGED input_format
           ELSE /\ calls' = <<Call("read_data", path, detected.value)>>
                /\ pc' = "acquired"
                /\ input_format' = detected.value
    /\ UNCHANGED <<files, max_size_mb, selected, opened, all_columns,
                   multi_file_mode, first_file, path, stripped, columns>>
    /\ UNCHANGED readVars
    /\ UNCHANGED whereVars

NextAcquire ==
    \/ MainFirstFile
    \/ MainMultiFile
    \/ MainSingleFile

SpecAcquire == InitAcquire /\ [][NextAcquire]_vars

\* main has left the acquisition step, with data or with an error.
AcquireDone == pc \in {"acquired", "raised"}

EndsWithSlash == path # <<>> /\ path[Len(path)] = "/"

FirstFileCase ==
    multi_file_mode = "first" \/ (multi_file_mode = "auto" /\ max_size_mb <= 0)

CalledFns == {calls[k].fn : k \in 1..Len(calls)}

C28_FilterAgreesWithDetection ==
    (AcquireDone /\ selected.call = "multiread") =>
        /\ LET kept == matching_files(metadata_filtered(files), input_format)
           IN  kept # <<>> =>
                 \A e \in Range(non_metadata_files(files)) :
                     detect_format_from_path(e[1]) = [status |-> "ok", value |-> input_format]
                         => e \in Range(kept)
        /\ first_file # <<>> =>
             first_file \in Range(names_of(filtered_files(files, input_format)))

\* C29: after every iteration of the multi-file loop
\* 0 <= remaining_offset <= offset, rows_skipped + remaining_offset = offset
\* and total_rows = rows_skipped + rows_read; remaining_offset never
\* increases, and a batch is appended to dfs only by an iteration that
\* leaves remaining_offset at 0, the batch being what the file holds behind
\* the offset still to skip.
C29_OffsetAccounting ==
    /\ [](/\ 0 <= remaining_offset
          /\ remaining_offset <= offset
          /\ rows_skipped + remaining_offset = offset
          /\ total_rows = rows_skipped + rows_read)
    /\ [][remaining_offset' <= remaining_offset]_vars
    /\ [][dfs' # dfs =>
            /\ remaining_offset' = 0
            /\ Len(dfs') = Len(dfs) + 1
            /\ Len(dfs'[Len(dfs')]) = (total_rows' - total_rows) - remaining_offset
            /\ rows_read' = rows_read + Len(dfs'[Len(dfs')])]_vars

C29_Witness ==
    /\ pc = "post"
    /\ offset > 0
    /\ remaining_offset = 0
    /\ rows_skipped = offset
    /\ Len(schemas) = 3
    /\ Len(dfs) = 2
    /\ Len(dfs[1]) < RowsOf(2)
    /\ rows_read > Len(dfs[1])

-----------------------------------------------------------------------------
(* read_data_from_multiple_files as a function of the files it is given.   *)

\* The accumulators before the loop.
ReaderStart ==
    [remaining_offset |-> offset, rows_read |-> 0, rows_skipped |-> 0,
     total_rows |-> 0, dfs |-> <<>>, schemas |-> <<>>]

\* The loop over the files at the positions ids of file_list, in that order.
RECURSIVE reader_loop(_, _)
reader_loop(ids, st) ==
    IF ids = <<>> THEN st
    ELSE LET idx == Head(ids)
             f == file_list[idx]
             budget == rows_to_read(st.remaining_offset,
                                    IF num_rows > 0 THEN num_rows ELSE 0)
             df == decode(idx, f, budget)
             kept == IF st.remaining_offset > 0
                     THEN iloc_from(df, st.remaining_offset) ELSE df
         IN  IF f.fails \/ df = <<>>
             THEN reader_loop(Tail(ids), st)
             ELSE IF st.remaining_offset > 0 /\ st.remaining_offset >= Len(df)
             THEN reader_loop(Tail(ids),
                      [st EXCEPT !.total_rows = @ + Len(df),
                                 !.remaining_offset = @ - Len(df),
                                 !.rows_skipped = @ + Len(df),
                                 !.schemas = Append(@, f.schema)])
             ELSE LET next == [st EXCEPT !.total_rows = @ + Len(df),
                                         !.rows_skipped = @ + st.remaining_offset,
                                         !.remaining_offset = 0,
                                         !.dfs = Append(@, kept),
                                         !.schemas = Append(@, f.schema),
                                         !.rows_read = @ + Len(kept)]
                  IN  IF enough_rows(num_rows, next.rows_read)
                      THEN next
                      ELSE reader_loop(Tail(ids), next)

\* The code after the loop, on the accumulators st.
reader_result(st) ==
    IF st.dfs = <<>>
    THEN IF st.rows_skipped > 0
         THEN [status |-> "ok", rows |-> <<>>, columns |-> <<>>,
               schema |-> <<>>, total |-> st.total_rows]
         ELSE [status |-> NoDataRead]
    ELSE [status |-> "ok",
          rows |-> truncate(concat(st.dfs), num_rows),
          columns |-> columns_of(merge_schemas(<<>>, st.schemas)),
          schema |-> merge_schemas(<<>>, st.schemas),
          total |-> st.total_rows]

\* The reader on the files at the positions ids.
reader_on(ids) == reader_result(reader_loop(ids, ReaderStart))

AllFiles == [k \in 1..Len(file_list) |-> k]

\* The positions left when the failing files are removed from the list.
WithoutFailing == SelectSeq(AllFiles, LAMBDA k : ~file_list[k].fails)

\* The loop is about to process a file that raises.
AtFailingFile ==
    /\ pc = "loop"
    /\ file_idx < Len(file_list)
    /\ file_list[file_idx + 1].fails

\* C30: an iteration whose file raises leaves remaining_offset, rows_read,
\* rows_skipped, total_rows, the accumulated batches and the recorded
\* schemas as they were, and the result of the reader equals the result of
\* the reader on the file list with the failing files removed.
C30_FailingFileLeavesNoTrace ==
    /\ [][AtFailingFile =>
            UNCHANGED <<remaining_offset, rows_read, rows_skipped,
                        total_rows, dfs, schemas>>]_vars
    /\ [](MultiDone => /\ result = reader_on(AllFiles)
                       /\ result = reader_on(WithoutFailing))

C30_Witness ==
    /\ MultiDone
    /\ result.status = "ok"
    /\ Len(file_list) = 3
    /\ RowsOf(1) > 0
    /\ file_list[2].fails
    /\ offset > RowsOf(1)
    /\ <<3, offset - RowsOf(1) + 1>> \in Range(result.rows)

=============================================================================
